---- MODULE Spec2Model ----
(***************************************************************************)
(* A model of the pools library: Pool (src/README.md, the Pool class       *)
(* listing), Query (src/src/Query.ts) and Selectors (src/src/types.ts).    *)
(*                                                                         *)
(* JavaScript objects have identity, so the model keeps a heap: arrays,    *)
(* entries ({data, meta} objects) and metadata bags are addressed by ids.  *)
(* A Pool holds a reference to its entries array, a Query holds a          *)
(* reference to the array it was constructed with.                         *)
(***************************************************************************)
EXTENDS Integers, Sequences, FiniteSets, TLC

VARIABLES
    arrays,     \* heap of arrays: array id -> sequence of entry ids
    poolArr,    \* Pool.entries: pool -> array id
    entryData,  \* PoolEntry.data: entry id -> data object
    entryMeta,  \* PoolEntry.meta: entry id -> id of the metadata bag
    metas,      \* heap of metadata bags: meta id -> bag
    q,          \* the Query object under construction (NoQuery before query())
    hist,       \* history: the arguments of the builder calls made on q
    qSnap,      \* history: the pool's entry sequence when query() was called
    cands,      \* the candidate list handed to a selector
    ret,        \* the value returned by the last call
    handlers,   \* Pool.eventHandlers: pool -> event -> sequence of handlers
    calls,      \* history: the emissions of the last Pool operation that reached handlers
    binder      \* the PoolBinder: its pools, filters and selectors maps

vars ==
    <<arrays, poolArr, entryData, entryMeta, metas, q, hist, qSnap, cands, ret,
      handlers, calls, binder>>

heap == <<arrays, poolArr, entryData, entryMeta, metas, handlers, calls>>

----------------------------------------------------------------------------
(* Bounds of the model *)

MaxLen == 3          \* longest entry sequence drawn or built
MaxFilters == 2      \* most where/whereOr calls on one query
MaxSorters == 2      \* most orderBy/orderByMeta calls on one query
MaxOffset == 4       \* largest offset argument
MaxLimit == 3        \* largest limit argument
MaxNeg == 2          \* limit arguments go down to -MaxNeg
RandDenom == 4       \* Math.random() is drawn from {0/RandDenom .. (RandDenom-1)/RandDenom}
NumPools == 3        \* the pools the caller holds
MaxEntries == 2      \* most {data, meta} objects ever created
MaxBags == 3         \* most metadata bags ever created
MaxSize == 2         \* longest entries array of a pool on the heap
MaxKey == 2          \* data.k ranges over 1..MaxKey
MaxBatch == 2        \* most items of one addBatch call, most sources of one merge
MaxHandlers == 2     \* most handlers registered for one event of one pool
MaxCount == 2        \* largest meta.usedCount

(* Query.ts:13  limitCount = Infinity: a number above every length and sum here *)
Infinity == 99

----------------------------------------------------------------------------
(* JavaScript values *)

Null == [null |-> TRUE]

NoQuery == [none |-> TRUE]

(* The names the Pool emits *)
Events ==
    {"add", "batchAdd", "get", "set", "remove", "batchRemove",
     "beforeSelect", "afterSelect"}

(* eventHandlers of a new Pool: no event has a handler *)
NoHandlers == [ev \in Events |-> <<>>]

(* A new PoolBinder: three empty Maps *)
NoBinder == [pools |-> <<>>, filters |-> <<>>, selectors |-> <<>>]

(* obj[f]: undefined when the object has no such property *)
Absent == [def |-> FALSE, val |-> 0]

Val(n) == [def |-> TRUE, val |-> n]

Has(obj, f) == f \in DOMAIN obj

Field(obj, f) == IF Has(obj, f) THEN Val(obj[f]) ELSE Absent

(* x < y on numbers; every comparison with undefined is false *)
JsLt(x, y) == x.def /\ y.def /\ x.val < y.val

EmptyBag == [f \in {} |-> 0]

RECURSIVE SeqSum(_)
SeqSum(s) == IF s = <<>> THEN 0 ELSE Head(s) + SeqSum(Tail(s))

Range(s) == {s[i] : i \in 1..Len(s)}

(* Array.prototype.slice(start, end) *)
Slice(s, start, end) ==
    LET n == Len(s)
        from == IF start < 0 THEN (IF n + start < 0 THEN 0 ELSE n + start)
                ELSE (IF start > n THEN n ELSE start)
        to == IF end < 0 THEN (IF n + end < 0 THEN 0 ELSE n + end)
              ELSE (IF end > n THEN n ELSE end)
    IN  IF from >= to THEN <<>> ELSE [i \in 1..(to - from) |-> s[from + i]]

----------------------------------------------------------------------------
(* The heap *)

Entry(e) == [id |-> e, data |-> entryData[e], meta |-> metas[entryMeta[e]]]

EntriesOf(arr) == [i \in 1..Len(arrays[arr]) |-> Entry(arrays[arr][i])]

DataOf(es) == [i \in 1..Len(es) |-> es[i].data]

IdsOf(es) == [i \in 1..Len(es) |-> es[i].id]

----------------------------------------------------------------------------
(* Query: filters *)

(* The caller's predicates (Filter<T>): a fixed family over data and meta *)
Preds == {"a1", "p1", "id2"}

Holds(p, e) ==
    CASE p = "a1" -> Field(e.data, "a") = Val(1)
      [] p = "p1" -> Field(e.meta, "p") = Val(1)
      [] p = "id2" -> JsLt(Val(1), Field(e.data, "id"))
      [] p = "k1" -> Field(e.data, "k") = Val(1)
      [] p = "fresh" -> JsLt(Field(e.meta, "usedCount"), Val(1))

PassesEvery(f, e) == \A p \in f : Holds(p, e)

(* A registered filter is a set of predicates: where(P) registers {P},
   whereOr(Ps) registers (entry) => Ps.some(f => f(entry)) *)
PassesFilter(f, e) == \E p \in f : Holds(p, e)

RECURSIVE ApplyFilters(_, _)
ApplyFilters(es, fs) ==
    IF fs = <<>> THEN es
    ELSE ApplyFilters(SelectSeq(es, LAMBDA e : PassesFilter(Head(fs), e)), Tail(fs))

----------------------------------------------------------------------------
(* Query: sorters *)

Orders == {"asc", "desc"}

(* The comparator orderBy(field, order) / orderByMeta(field, order) registers *)
SorterCmp(s, x, y) ==
    LET xv == Field(IF s.meta THEN x.meta ELSE x.data, s.field)
        yv == Field(IF s.meta THEN y.meta ELSE y.data, s.field)
        comparison == IF JsLt(xv, yv) THEN -1 ELSE IF JsLt(yv, xv) THEN 1 ELSE 0
    IN  IF s.order = "asc" THEN comparison ELSE 0 - comparison

RECURSIVE CompareLastFirst(_, _, _)
CompareLastFirst(ss, x, y) ==
    IF ss = <<>> THEN 0
    ELSE LET comparison == SorterCmp(ss[Len(ss)], x, y)
         IN  IF comparison # 0 THEN comparison
             ELSE CompareLastFirst(SubSeq(ss, 1, Len(ss) - 1), x, y)

(* The comparator materialize() hands to sort: the first sorter that tells
   the two entries apart decides *)
RECURSIVE Compare(_, _, _)
Compare(ss, x, y) ==
    IF ss = <<>> THEN 0
    ELSE LET comparison == SorterCmp(Head(ss), x, y)
         IN  IF comparison # 0 THEN comparison ELSE Compare(Tail(ss), x, y)

(* Array.prototype.sort is stable (ECMAScript 2019): an insertion sort that
   puts each entry after every earlier entry not greater than it *)
RECURSIVE Insert(_, _, _)
Insert(sorted, x, ss) ==
    IF sorted = <<>> THEN <<x>>
    ELSE IF Compare(ss, x, Head(sorted)) < 0 THEN <<x>> \o sorted
    ELSE <<Head(sorted)>> \o Insert(Tail(sorted), x, ss)

RECURSIVE SortEntries(_, _)
SortEntries(es, ss) ==
    IF es = <<>> THEN <<>>
    ELSE Insert(SortEntries(SubSeq(es, 1, Len(es) - 1), ss), es[Len(es)], ss)

----------------------------------------------------------------------------
(* Query: materialize *)

PaginateEndIsLimit(es, offsetCount, limitCount) ==
    IF offsetCount > 0 \/ limitCount # Infinity
    THEN Slice(es, offsetCount, limitCount)
    ELSE es

Paginate(es, offsetCount, limitCount) ==
    IF offsetCount > 0 \/ limitCount # Infinity
    THEN Slice(es, offsetCount, offsetCount + limitCount)
    ELSE es

(* What the filter loop of materialize() and of count evaluates: the i-th
   filter is called once for each entry the filters before it let through *)
FilterRuns(es, fs) == [i \in 1..Len(fs) |-> IdsOf(ApplyFilters(es, SubSeq(fs, 1, i - 1)))]

(* materialize() of query qq when its entries array holds es *)
MaterializeOver(qq, es) ==
    LET filtered == ApplyFilters(es, qq.filters)
        sorted == IF Len(qq.sorters) > 0 THEN SortEntries(filtered, qq.sorters)
                  ELSE filtered
    IN  Paginate(sorted, qq.offsetCount, qq.limitCount)

Materialize(qq) == MaterializeOver(qq, EntriesOf(qq.arr))

(* new Query(this.entries) in Pool.query(): the query keeps the array it is
   given, and its select wrapper keeps the pool *)
NewQuery(p, arr) ==
    [pool |-> p, arr |-> arr, filters |-> <<>>, sorters |-> <<>>,
     offsetCount |-> 0, limitCount |-> Infinity]

This == [this |-> TRUE]

NoCalls == [wheres |-> <<>>, orders |-> <<>>, offset |-> Absent, limit |-> Absent]

----------------------------------------------------------------------------
(* Query: the builder calls and the materializing calls *)

Where(p) ==
    /\ q # NoQuery
    /\ Len(q.filters) < MaxFilters
    /\ q' = [q EXCEPT !.filters = Append(@, {p})]
    /\ hist' = [hist EXCEPT !.wheres = Append(@, {p})]
    /\ ret' = This
    /\ UNCHANGED <<heap, qSnap, cands, binder>>

WhereOr(ps) ==
    /\ q # NoQuery
    /\ Len(q.filters) < MaxFilters
    /\ q' = [q EXCEPT !.filters = Append(@, ps)]
    /\ hist' = [hist EXCEPT !.wheres = Append(@, ps)]
    /\ ret' = This
    /\ UNCHANGED <<heap, qSnap, cands, binder>>

OrderBy(field, order) ==
    /\ q # NoQuery
    /\ Len(q.sorters) < MaxSorters
    /\ q' = [q EXCEPT !.sorters =
                Append(@, [meta |-> FALSE, field |-> field, order |-> order])]
    /\ hist' = [hist EXCEPT !.orders =
                Append(@, [meta |-> FALSE, field |-> field, order |-> order])]
    /\ ret' = This
    /\ UNCHANGED <<heap, qSnap, cands, binder>>

OrderByMeta(field, order) ==
    /\ q # NoQuery
    /\ Len(q.sorters) < MaxSorters
    /\ q' = [q EXCEPT !.sorters =
                Append(@, [meta |-> TRUE, field |-> field, order |-> order])]
    /\ hist' = [hist EXCEPT !.orders =
                Append(@, [meta |-> TRUE, field |-> field, order |-> order])]
    /\ ret' = This
    /\ UNCHANGED <<heap, qSnap, cands, binder>>

Offset(count) ==
    /\ q # NoQuery
    /\ q' = [q EXCEPT !.offsetCount = count]
    /\ hist' = [hist EXCEPT !.offset = Val(count)]
    /\ ret' = This
    /\ UNCHANGED <<heap, qSnap, cands, binder>>

Limit(count) ==
    /\ q # NoQuery
    /\ q' = [q EXCEPT !.limitCount = count]
    /\ hist' = [hist EXCEPT !.limit = Val(count)]
    /\ ret' = This
    /\ UNCHANGED <<heap, qSnap, cands, binder>>

ToArray ==
    /\ q # NoQuery
    /\ ret' = [op |-> "toArray", val |-> DataOf(Materialize(q)),
               ids |-> IdsOf(Materialize(q)),
               evals |-> <<FilterRuns(EntriesOf(q.arr), q.filters)>>]
    /\ UNCHANGED <<heap, q, hist, qSnap, cands, binder>>

----------------------------------------------------------------------------
(* A pool of up to MaxLen entries, each with its own metadata bag, and a
   query just constructed over it *)

QueryData == [a : 0..1]

QueryMeta == [p : 0..1]

WithId(d, i) == [f \in DOMAIN d \cup {"id"} |-> IF f = "id" THEN i ELSE d[f]]

InitQuery ==
    \E n \in 0..MaxLen :
      \E ds \in [1..n -> QueryData], ms \in [1..n -> QueryMeta] :
        /\ arrays = [x \in {1} |-> [i \in 1..n |-> i]]
        /\ poolArr = [x \in {1} |-> 1]
        /\ entryData = [i \in 1..n |-> WithId(ds[i], i)]
        /\ entryMeta = [i \in 1..n |-> i]
        /\ metas = ms
        /\ q = NewQuery(1, 1)
        /\ hist = NoCalls
        /\ qSnap = [i \in 1..n |-> i]
        /\ cands = <<>>
        /\ ret = This
        /\ handlers = [x \in {1} |-> NoHandlers]
        /\ calls = <<>>
        /\ binder = NoBinder

NextFilter ==
    \/ \E p \in Preds : Where(p)
    \/ \E ps \in SUBSET Preds : WhereOr(ps)
    \/ ToArray

SpecFilter == InitQuery /\ [][NextFilter]_vars

NextSort ==
    \/ \E o \in Orders : OrderBy("a", o)
    \/ \E o \in Orders : OrderByMeta("p", o)
    \/ ToArray

SpecSort == InitQuery /\ [][NextSort]_vars

(* Pagination is applied to the filtered and sorted sequence: the query
   starts with or without a filter and a sorter registered *)
PlanFilters == {<<>>, <<{"a1"}>>}

PlanSorters == {<<>>, <<[meta |-> FALSE, field |-> "a", order |-> "desc"]>>}

InitPage ==
    \E n \in 0..MaxLen :
      \E ds \in [1..n -> QueryData], ms \in [1..n -> QueryMeta],
         fs \in PlanFilters, ss \in PlanSorters :
        /\ arrays = [x \in {1} |-> [i \in 1..n |-> i]]
        /\ poolArr = [x \in {1} |-> 1]
        /\ entryData = [i \in 1..n |-> WithId(ds[i], i)]
        /\ entryMeta = [i \in 1..n |-> i]
        /\ metas = ms
        /\ q = [NewQuery(1, 1) EXCEPT !.filters = fs, !.sorters = ss]
        /\ hist = [NoCalls EXCEPT !.wheres = fs, !.orders = ss]
        /\ qSnap = [i \in 1..n |-> i]
        /\ cands = <<>>
        /\ ret = This
        /\ handlers = [x \in {1} |-> NoHandlers]
        /\ calls = <<>>
        /\ binder = NoBinder

NextPage ==
    \/ \E k \in 0..MaxOffset : Offset(k)
    \/ \E n \in (0 - MaxNeg)..MaxLimit : Limit(n)
    \/ ToArray

SpecPage == InitPage /\ [][NextPage]_vars

----------------------------------------------------------------------------
(* Properties of the query pipeline *)

(* The pool's entries in insertion order, as they stood at query() *)
Original == [i \in 1..Len(qSnap) |-> Entry(qSnap[i])]

PassesAll(e) == \A i \in 1..Len(hist.wheres) : \E p \in hist.wheres[i] : Holds(p, e)

(* C5: toArray() returns, in the pool's original order, exactly the entries
   that satisfy every where predicate and at least one predicate of each
   whereOr call *)
C5_FilterConjunction ==
    (ret # This /\ ret.op = "toArray") =>
        ret.val = DataOf(SelectSeq(Original, PassesAll))

(* where(P).whereOr([Q, R]) has been materialized, it kept an entry and
   dropped one that passes P *)
C5_Witness ==
    /\ ret # This /\ ret.op = "toArray"
    /\ Len(hist.wheres) = 2
    /\ Cardinality(hist.wheres[1]) = 1
    /\ Cardinality(hist.wheres[2]) = 2
    /\ Len(ret.val) >= 1
    /\ \E i \in 1..Len(Original) :
          /\ PassesFilter(hist.wheres[1], Original[i])
          /\ ~PassesFilter(hist.wheres[2], Original[i])

(* The sort key of an entry under one registered sorter *)
KeyOf(s, d, m) == IF s.meta THEN m[s.field] ELSE d[s.field]

KeyBefore(s, x, y) ==
    IF s.order = "asc" THEN KeyOf(s, x.data, x.meta) < KeyOf(s, y.data, y.meta)
    ELSE KeyOf(s, x.data, x.meta) > KeyOf(s, y.data, y.meta)

KeySame(s, x, y) == KeyOf(s, x.data, x.meta) = KeyOf(s, y.data, y.meta)

LexBefore(x, y) ==
    \E k \in 1..Len(hist.orders) :
        /\ \A m \in 1..(k - 1) : KeySame(hist.orders[m], x, y)
        /\ KeyBefore(hist.orders[k], x, y)

LexSame(x, y) == \A k \in 1..Len(hist.orders) : KeySame(hist.orders[k], x, y)

(* The entry whose data toArray() returned at position i (data.id names it) *)
Returned(i) == Entry(ret.val[i].id)

(* C6: the materialized order is lexicographic in registration order of the
   sort keys, and entries equal under every key keep their insertion order *)
C6_SortLexStable ==
    (ret # This /\ ret.op = "toArray") =>
        /\ Len(ret.val) = Len(Original)
        /\ {ret.val[i].id : i \in 1..Len(ret.val)} = Range(qSnap)
        /\ \A i, j \in 1..Len(ret.val) :
              i < j => \/ LexBefore(Returned(i), Returned(j))
                       \/ /\ LexSame(Returned(i), Returned(j))
                          /\ ret.val[i].id < ret.val[j].id

(* Two keys are registered; the second one breaks a tie of the first against
   insertion order, and two entries equal under both keep their order *)
C6_Witness ==
    /\ ret # This /\ ret.op = "toArray"
    /\ Len(hist.orders) = 2
    /\ hist.orders[1].field # hist.orders[2].field
    /\ \E i, j \in 1..Len(ret.val) :
          /\ i < j
          /\ KeySame(hist.orders[1], Returned(i), Returned(j))
          /\ KeyBefore(hist.orders[2], Returned(i), Returned(j))
          /\ ret.val[i].id > ret.val[j].id
    /\ \E i, j \in 1..Len(ret.val) :
          i < j /\ LexSame(Returned(i), Returned(j))

(* The filtered and sorted sequence pagination is applied to *)
FilteredSorted == SortEntries(SelectSeq(Original, PassesAll), hist.orders)

ArgOffset == IF hist.offset.def THEN hist.offset.val ELSE 0

Min(a, b) == IF a < b THEN a ELSE b

Max(a, b) == IF a > b THEN a ELSE b

(* The entries at positions [k, k+n) of s, counted from 0, cut at its end *)
Window(s, k, n) == [i \in 1..Min(n, Max(0, Len(s) - k)) |-> s[k + i]]

(* C7: with offset k >= 0 and limit n >= 0 (the last value given to each),
   toArray() returns the entries at positions [k, k+n) of the filtered and
   sorted sequence; with no limit, everything from position k on *)
C7_Pagination ==
    (ret # This /\ ret.op = "toArray") =>
        IF hist.limit.def
        THEN hist.limit.val >= 0 =>
                ret.val = DataOf(Window(FilteredSorted, ArgOffset, hist.limit.val))
        ELSE ret.val = DataOf(Window(FilteredSorted, ArgOffset, Len(FilteredSorted)))

(* A proper window: an offset and a limit are set, entries are skipped at
   both ends of a filtered and sorted sequence *)
C7_Witness ==
    /\ ret # This /\ ret.op = "toArray"
    /\ hist.offset.def /\ hist.offset.val = 1
    /\ hist.limit.def /\ hist.limit.val = 1
    /\ Len(FilteredSorted) = 3
    /\ Len(hist.orders) = 1
    /\ ret.val = <<FilteredSorted[2].data>>
    /\ FilteredSorted[2].id # 2

(* C8: a limit n <= 0 means take none: the materialized result is empty *)
C8_NonPositiveLimitEmpty ==
    (ret # This /\ ret.op = "toArray" /\ hist.limit.def /\ hist.limit.val <= 0) =>
        ret.val = <<>>

----------------------------------------------------------------------------
(* Selectors (src/src/types.ts).  Math.random() is j / RandDenom for a draw
   j in 0..RandDenom-1; sums and comparisons are scaled by RandDenom. *)

Draws == 0..(RandDenom - 1)

First(es) == IF Len(es) > 0 THEN es[1] ELSE Null

Last(es) == IF Len(es) > 0 THEN es[Len(es)] ELSE Null

Random(es, j) ==
    IF Len(es) = 0 THEN Null
    ELSE es[((j * Len(es)) \div RandDenom) + 1]

ResolveOr(e, field) ==
    LET d == Field(e.data, field)
    IN  IF d.def /\ d.val # 0 THEN d ELSE Field(e.meta, field)

(* (entry.data as any)[field] ?? (entry.meta as any)[field] *)
Resolve(e, field) ==
    LET d == Field(e.data, field)
    IN  IF d.def THEN d ELSE Field(e.meta, field)

(* entries.reduce((min, entry) => ...) from the second entry on *)
RECURSIVE MinReduce(_, _, _, _)
MinReduce(es, i, min, field) ==
    IF i > Len(es) THEN min
    ELSE MinReduce(es, i + 1,
                   IF JsLt(Resolve(es[i], field), Resolve(min, field))
                   THEN es[i] ELSE min,
                   field)

MinBy(es, field) ==
    IF Len(es) = 0 THEN Null ELSE MinReduce(es, 2, es[1], field)

(* The loop of weighted: random is the scaled running value before entry i *)
RECURSIVE WeightedWalkNoLast(_, _, _, _)
WeightedWalkNoLast(es, ws, i, random) ==
    IF i > Len(es) THEN Null
    ELSE IF random - RandDenom * ws[i] <= 0 THEN es[i]
    ELSE WeightedWalkNoLast(es, ws, i + 1, random - RandDenom * ws[i])

RECURSIVE WeightedWalk(_, _, _, _)
WeightedWalk(es, ws, i, random) ==
    IF i > Len(es) THEN es[Len(es)]
    ELSE IF random - RandDenom * ws[i] <= 0 THEN es[i]
    ELSE WeightedWalk(es, ws, i + 1, random - RandDenom * ws[i])

(* The caller's weightFn: (e) => e.data.w ?? 0 *)
WeightFn(e) == IF Has(e.data, "w") THEN e.data["w"] ELSE 0

WeightsOf(es) == [i \in 1..Len(es) |-> WeightFn(es[i])]

Weighted(es, j) ==
    IF Len(es) = 0 THEN Null
    ELSE LET weights == WeightsOf(es)
             totalWeight == SeqSum(weights)
         IN  IF totalWeight = 0 THEN Random(es, j)
             ELSE WeightedWalk(es, weights, 1, j * totalWeight)

Returns(op, val) == [op |-> op, val |-> val, given |-> cands]

CallFirst ==
    /\ ret' = Returns("first", First(cands))
    /\ UNCHANGED <<heap, q, hist, qSnap, cands, binder>>

CallLast ==
    /\ ret' = Returns("last", Last(cands))
    /\ UNCHANGED <<heap, q, hist, qSnap, cands, binder>>

CallRandom(j) ==
    /\ ret' = Returns("random", Random(cands, j))
    /\ UNCHANGED <<heap, q, hist, qSnap, cands, binder>>

CallMinBy(field) ==
    /\ ret' = Returns("minBy", MinBy(cands, field))
    /\ UNCHANGED <<heap, q, hist, qSnap, cands, binder>>

CallWeighted(j) ==
    /\ ret' = Returns("weighted", Weighted(cands, j))
    /\ UNCHANGED <<heap, q, hist, qSnap, cands, binder>>

(* Candidate entries: either data.v and meta.v are each a number or not
   defined (the entries minBy tells apart), or data.w is a weight *)
SelBags == {EmptyBag} \cup [v : 0..1]

WeightBags == [w : {0 - 1, 0, 1}]

InitSel ==
    \E n \in 0..MaxLen :
      \E ds \in [1..n -> SelBags] \cup [1..n -> WeightBags], ms \in [1..n -> SelBags] :
        /\ (ds \in [1..n -> WeightBags] /\ n > 0) => ms = [i \in 1..n |-> EmptyBag]
        /\ cands = [i \in 1..n |-> [id |-> i, data |-> ds[i], meta |-> ms[i]]]
        /\ arrays = <<>>
        /\ poolArr = <<>>
        /\ entryData = <<>>
        /\ entryMeta = <<>>
        /\ metas = <<>>
        /\ q = NoQuery
        /\ hist = NoCalls
        /\ qSnap = <<>>
        /\ ret = This
        /\ handlers = <<>>
        /\ calls = <<>>
        /\ binder = NoBinder

NextSel ==
    \/ CallFirst
    \/ CallLast
    \/ \E j \in Draws : CallRandom(j)
    \/ CallMinBy("v")
    \/ \E j \in Draws : CallWeighted(j)

SpecSel == InitSel /\ [][NextSel]_vars

(* C9: a selector returns null on an empty candidate list, a member of the
   list on a non-empty one, and leaves the list as it was given *)
C9_SelectorsTotal ==
    ret # This =>
        /\ (cands = <<>> => ret.val = Null)
        /\ (cands # <<>> => ret.val \in Range(cands))
        /\ cands = ret.given

(* weighted has returned a candidate for weights with a negative sum, where
   the walk over the candidates ends without a hit *)
C9_Witness ==
    /\ ret # This /\ ret.op = "weighted"
    /\ SeqSum(WeightsOf(cands)) < 0
    /\ Len(cands) >= 2
    /\ ret.val = cands[Len(cands)]

(* The value minBy compares: data[field] when data defines it, else meta[field] *)
Resolved(e) == IF Has(e.data, "v") THEN e.data["v"] ELSE e.meta["v"]

Comparable(es) == \A i \in 1..Len(es) : Has(es[i].data, "v") \/ Has(es[i].meta, "v")

(* C10: minBy returns the first candidate whose resolved value is minimal *)
C10_MinByFirstMinimal ==
    (ret # This /\ ret.op = "minBy" /\ cands # <<>> /\ Comparable(cands)) =>
        \E i \in 1..Len(cands) :
            /\ ret.val = cands[i]
            /\ \A k \in 1..Len(cands) : Resolved(cands[i]) <= Resolved(cands[k])
            /\ \A k \in 1..(i - 1) : Resolved(cands[i]) < Resolved(cands[k])

(* minBy chose a later candidate for its data value 0 although its meta
   holds a larger value, and a candidate after it ties through its meta *)
C10_Witness ==
    /\ ret # This /\ ret.op = "minBy" /\ Comparable(cands)
    /\ Len(cands) = 3
    /\ ret.val = cands[2]
    /\ Field(cands[2].data, "v") = Val(0)
    /\ Field(cands[2].meta, "v") = Val(1)
    /\ ~Has(cands[3].data, "v")
    /\ Field(cands[3].meta, "v") = Val(0)

----------------------------------------------------------------------------
(* Pool (src/README.md): the heap operations.  No event handler is
   registered, so emit() finds no handlers and changes nothing. *)

Pools == 1..NumPools

(* One array per pool, and one more that only the query may still hold *)
ArrIds == 1..(NumPools + 1)

HeapData == [k : 1..MaxKey]

TheHeap ==
    [arrays |-> arrays, poolArr |-> poolArr, entryData |-> entryData,
     entryMeta |-> entryMeta, metas |-> metas, handlers |-> handlers,
     calls |-> <<>>]

SetHeap(h) ==
    /\ arrays' = h.arrays
    /\ poolArr' = h.poolArr
    /\ entryData' = h.entryData
    /\ entryMeta' = h.entryMeta
    /\ metas' = h.metas
    /\ handlers' = h.handlers
    /\ calls' = h.calls

(* The entries of the array a on the heap h *)
HEntriesOf(h, a) ==
    [i \in 1..Len(h.arrays[a]) |->
        [id |-> h.arrays[a][i],
         data |-> h.entryData[h.arrays[a][i]],
         meta |-> h.metas[h.entryMeta[h.arrays[a][i]]]]]

(* this.entries of pool p *)
Arr(p) == arrays[poolArr[p]]

HArr(h, p) == h.arrays[h.poolArr[p]]

(* { ...old, ...bag } *)
MergeBags(old, bag) ==
    [f \in DOMAIN old \cup DOMAIN bag |-> IF f \in DOMAIN bag THEN bag[f] ELSE old[f]]

(* A new metadata object; its id is Len(metas) afterwards *)
HNewBag(h, bag) == [h EXCEPT !.metas = Append(@, bag)]

(* A new { data, meta } object over the bag mid; its id is Len(entryData) afterwards *)
HNewEntry(h, d, mid) ==
    [h EXCEPT !.entryData = Append(@, d), !.entryMeta = Append(@, mid)]

(* this.entries.push(e) *)
HPush(h, p, e) == [h EXCEPT !.arrays[h.poolArr[p]] = Append(@, e)]

(* The arguments of an emission: one entry, a list of entries, or the
   selected data (null when nothing was selected) *)
EntryArg(e) == [kind |-> "entry", e |-> e]

EntriesArg(es) == [kind |-> "entries", es |-> es]

DataArg(d) == [kind |-> "data", val |-> d]

(* The functions the caller registers as handlers:
     note   only observes its argument
     count  (entry) => { entry.meta.usedCount++ }
     mark   (entries) => entries.forEach((e) => { e.meta.usedCount++ })
     once   calls pool.off(event, itself)
     more   calls pool.on(event, note)
     adder  calls pool.add({ k: 1 }) *)
HandlerKinds == {"note", "count", "mark", "once", "more", "adder"}

(* The events whose argument is one entry, and those whose argument is an
   array of entries; afterSelect carries the selected data *)
EntryEvents == {"add", "get", "set", "remove"}

EntriesEvents == {"batchAdd", "batchRemove", "beforeSelect"}

(* The caller registers a handler written for the argument of its event *)
Suits(ev, hd) ==
    /\ hd = "count" => ev \in EntryEvents
    /\ hd = "mark" => ev \in EntriesEvents
    /\ hd = "adder" => ev \in {"remove", "batchRemove"}

(* undefined++ is NaN, and so is NaN++: a value no counter takes.  Bounded
   keeps every operation away from it *)
NaN == 0 - 1

(* this.eventHandlers.get(event).push(handler) *)
HOn(h, p, ev, hd) == [h EXCEPT !.handlers[p][ev] = Append(@, hd)]

(* handlers.indexOf(handler), then splice(index, 1) when it is not -1 *)
HOff(h, p, ev, hd) ==
    LET list == h.handlers[p][ev]
        found == {i \in 1..Len(list) : list[i] = hd}
    IN  IF found = {} THEN h
        ELSE LET index == CHOOSE i \in found : \A j \in found : i <= j
             IN  [h EXCEPT !.handlers[p][ev] =
                    SubSeq(list, 1, index - 1) \o SubSeq(list, index + 1, Len(list))]

(* entry.meta.usedCount++ *)
HCount(h, e) ==
    LET bag == h.metas[h.entryMeta[e]]
        next == IF "usedCount" \in DOMAIN bag /\ bag["usedCount"] # NaN
                THEN bag["usedCount"] + 1 ELSE NaN
    IN  [h EXCEPT !.metas[h.entryMeta[e]] =
            [f \in DOMAIN bag \cup {"usedCount"} |->
                IF f = "usedCount" THEN next ELSE bag[f]]]

(* entries.forEach((e) => { e.meta.usedCount++ }) *)
RECURSIVE HCountAll(_, _)
HCountAll(h, es) ==
    IF es = <<>> THEN h ELSE HCountAll(HCount(h, Head(es)), Tail(es))

RECURSIVE HAddFresh(_, _, _, _)

(* handler(...args): the call is noted in the emission under way, the c-th
   of h.calls, and the handler's body runs *)
HInvoke(h, p, ev, arg, hd, c) ==
    LET h1 == [h EXCEPT !.calls[c].ran = Append(@, hd)]
    IN  CASE hd = "note" -> h1
          [] hd = "count" -> IF arg.kind = "entry" THEN HCount(h1, arg.e) ELSE h1
          [] hd = "mark" -> IF arg.kind = "entries" THEN HCountAll(h1, arg.es) ELSE h1
          [] hd = "once" -> HOff(h1, p, ev, hd)
          [] hd = "more" -> HOn(h1, p, ev, "note")
          [] hd = "adder" -> HAddFresh(h1, p, [k |-> 1], EmptyBag)

(* handlers.forEach(...): the indices 0..len-1 of the array as it was at
   the start, each visited only if the array still has it when reached *)
RECURSIVE HForEach(_, _, _, _, _, _, _)
HForEach(h, p, ev, arg, k, len, c) ==
    IF k > len THEN h
    ELSE IF k > Len(h.handlers[p][ev]) THEN HForEach(h, p, ev, arg, k + 1, len, c)
    ELSE HForEach(HInvoke(h, p, ev, arg, h.handlers[p][ev][k], c), p, ev, arg, k + 1, len, c)

(* this.emit(event, arg); an event without handlers leaves no trace *)
HEmit(h, p, ev, arg) ==
    IF h.handlers[p][ev] = <<>> THEN h
    ELSE HForEach([h EXCEPT !.calls = Append(@, [ev |-> ev, arg |-> arg,
                                                 at |-> h.handlers[p][ev],
                                                 ran |-> <<>>])],
                  p, ev, arg, 1, Len(h.handlers[p][ev]), Len(h.calls) + 1)

(* Pool.add(data, meta) where meta is the bag mid already on the heap *)
HAdd(h, p, d, mid) ==
    LET h1 == HNewEntry(h, d, mid)
        h2 == HPush(h1, p, Len(h1.entryData))
    IN  HEmit(h2, p, "add", EntryArg(Len(h1.entryData)))

(* Pool.add(data, meta) where meta is a fresh object literal *)
HAddFresh(h, p, d, bag) ==
    LET h1 == HNewBag(h, bag) IN HAdd(h1, p, d, Len(h1.metas))

(* The heap h is within the bounds of the model *)
Fits(h) ==
    /\ Len(h.entryData) <= MaxEntries
    /\ Len(h.metas) <= MaxBags
    /\ \A a \in ArrIds : Len(h.arrays[a]) <= MaxSize

(* The array a is still held by the query *)
Pinned(a) == q # NoQuery /\ q.arr = a

FreeArr(h) == CHOOSE a \in ArrIds : a \notin Range(h.poolArr) /\ ~Pinned(a)

(* this.entries = seq: pool p gets a new array; the old one lives on only
   if the query holds it *)
HAssign(h, p, seq) ==
    LET old == h.poolArr[p]
        target == IF Pinned(old) THEN FreeArr(h) ELSE old
    IN  [h EXCEPT !.arrays[target] = seq, !.poolArr[p] = target]

(* new Pool() held in the caller's variable t, with seq as its entries *)
HNewPool(h, t, seq) == [HAssign(h, t, seq) EXCEPT !.handlers[t] = NoHandlers]

(* A caller's variable t can take a new pool: the query is not over it *)
Spare(t) == IF q = NoQuery THEN TRUE ELSE q.pool # t

(* What the handlers may grow stays within the bounds *)
Bounded(h) ==
    /\ \A p \in DOMAIN h.handlers : \A ev \in Events :
            Len(h.handlers[p][ev]) <= MaxHandlers
    /\ \A i \in 1..Len(h.metas) :
            "usedCount" \in DOMAIN h.metas[i] =>
                (h.metas[i]["usedCount"] # NaN /\ h.metas[i]["usedCount"] <= MaxCount)

Add(p, d, bag) ==
    /\ Len(entryData) < MaxEntries
    /\ Len(metas) < MaxBags
    /\ Len(Arr(p)) < MaxSize
    /\ Bounded(HAddFresh(TheHeap, p, d, bag))
    /\ SetHeap(HAddFresh(TheHeap, p, d, bag))
    /\ ret' = This
    /\ UNCHANGED <<q, hist, qSnap, cands, binder>>

RECURSIVE HAddAll(_, _, _)
HAddAll(h, p, ds) ==
    IF ds = <<>> THEN h
    ELSE HAddAll(HAddFresh(h, p, Head(ds), EmptyBag), p, Tail(ds))

(* items.map(item => ({ data, meta: item.meta || {} })), then one push of
   them all: no add() is called.  The items carry data only *)
RECURSIVE HCreateAll(_, _, _)
HCreateAll(h, p, ds) ==
    IF ds = <<>> THEN h
    ELSE LET h1 == HNewEntry(HNewBag(h, EmptyBag), Head(ds), Len(h.metas) + 1)
         IN  HCreateAll(HPush(h1, p, Len(h1.entryData)), p, Tail(ds))

AddBatch(p, ds) ==
    /\ Len(entryData) + Len(ds) <= MaxEntries
    /\ Len(metas) + Len(ds) <= MaxBags
    /\ Len(Arr(p)) + Len(ds) <= MaxSize
    /\ LET entries == [i \in 1..Len(ds) |-> Len(entryData) + i]
           h1 == HEmit(HCreateAll(TheHeap, p, ds), p, "batchAdd", EntriesArg(entries))
       IN  /\ Bounded(h1)
           /\ SetHeap(h1)
           /\ ret' = [op |-> "addBatch", es |-> entries]
    /\ UNCHANGED <<q, hist, qSnap, cands, binder>>

(* The positions of seq whose entry has data.k = v *)
Matching(h, seq, v) == {i \in 1..Len(seq) : h.entryData[seq[i]].k = v}

MinOf(S) == CHOOSE x \in S : \A y \in S : x <= y

Set(p, v, d, bag) ==
    /\ IF Matching(TheHeap, Arr(p), v) # {}
       THEN LET e == Arr(p)[MinOf(Matching(TheHeap, Arr(p), v))]
                h1 == HNewBag(TheHeap, MergeBags(metas[entryMeta[e]], bag))
                h2 == [h1 EXCEPT !.entryData[e] = d, !.entryMeta[e] = Len(h1.metas)]
                h3 == HEmit(h2, p, "set", EntryArg(e))
            IN  /\ Len(metas) < MaxBags
                /\ Bounded(h3)
                /\ SetHeap(h3)
                /\ ret' = [op |-> "set", e |-> e, added |-> FALSE]
       ELSE /\ Len(entryData) < MaxEntries
            /\ Len(metas) < MaxBags
            /\ Len(Arr(p)) < MaxSize
            /\ Bounded(HAddFresh(TheHeap, p, d, bag))
            /\ SetHeap(HAddFresh(TheHeap, p, d, bag))
            /\ ret' = [op |-> "set", e |-> Len(entryData) + 1, added |-> TRUE]
    /\ UNCHANGED <<q, hist, qSnap, cands, binder>>

RemoveAt(seq, i) == SubSeq(seq, 1, i - 1) \o SubSeq(seq, i + 1, Len(seq))

(* findIndex, then splice(index, 1) on the array itself; nothing changes
   when no entry matches *)
Delete(p, v) ==
    /\ LET index == MinOf(Matching(TheHeap, Arr(p), v))
           h1 == IF Matching(TheHeap, Arr(p), v) # {}
                 THEN HEmit([TheHeap EXCEPT !.arrays[poolArr[p]] = RemoveAt(@, index)],
                            p, "remove", EntryArg(Arr(p)[index]))
                 ELSE TheHeap
       IN  /\ Bounded(h1)
           /\ SetHeap(h1)
    /\ ret' = This
    /\ UNCHANGED <<q, hist, qSnap, cands, binder>>

(* this.entries = this.entries.filter(...) with predicate data.k \in vs *)
Kept(h, seq, vs) == SelectSeq(seq, LAMBDA e : h.entryData[e].k \notin vs)

Dropped(h, seq, vs) == SelectSeq(seq, LAMBDA e : h.entryData[e].k \in vs)

(* this.emit('remove', entry) for each entry the filter of remove() drops *)
RECURSIVE HEmitEach(_, _, _, _)
HEmitEach(h, p, ev, es) ==
    IF es = <<>> THEN h
    ELSE HEmitEach(HEmit(h, p, ev, EntryArg(Head(es))), p, ev, Tail(es))

Remove(p, v) ==
    /\ LET removed == Dropped(TheHeap, Arr(p), {v})
           h1 == HEmitEach(TheHeap, p, "remove", removed)
           h2 == HAssign(h1, p, Kept(TheHeap, Arr(p), {v}))
       IN  /\ Bounded(h2)
           /\ Fits(h1)
           /\ SetHeap(h2)
           /\ ret' = [op |-> "remove", es |-> removed,
                      made |-> Len(h2.entryData) - Len(entryData)]
    /\ UNCHANGED <<q, hist, qSnap, cands, binder>>

RemoveBatch(p, vs) ==
    /\ LET removed == Dropped(TheHeap, Arr(p), vs)
           h1 == HAssign(TheHeap, p, Kept(TheHeap, Arr(p), vs))
           h2 == IF Len(removed) > 0
                 THEN HEmit(h1, p, "batchRemove", EntriesArg(removed))
                 ELSE h1
       IN  /\ Bounded(h2)
           /\ Fits(h2)
           /\ SetHeap(h2)
           /\ ret' = [op |-> "removeBatch", es |-> removed,
                      made |-> Len(h2.entryData) - Len(entryData)]
    /\ UNCHANGED <<q, hist, qSnap, cands, binder>>

(* The caller writes entry.meta.p = v on the i-th entry of pool p *)
WriteMeta(p, i, v) ==
    /\ i \in 1..Len(Arr(p))
    /\ metas' = [metas EXCEPT ![entryMeta[Arr(p)[i]]] = MergeBags(@, [p |-> v])]
    /\ ret' = [op |-> "writeMeta", pool |-> p]
    /\ calls' = <<>>
    /\ UNCHANGED <<arrays, poolArr, entryData, entryMeta, q, hist, qSnap, cands,
                 handlers, binder>>

----------------------------------------------------------------------------
(* Pool.query() and the materializing calls of the query it returns *)

(* new Query(this.entries): the query holds the pool's array itself.  The
   query held before is dropped, and with it the array only it held; the
   arrays are renumbered so that each pool's array carries the pool's number *)
QueryNew(p) ==
    /\ q' = NewQuery(p, p)
    /\ qSnap' = Arr(p)
    /\ hist' = NoCalls
    /\ arrays' = [a \in ArrIds |-> IF a \in Pools THEN Arr(a) ELSE <<>>]
    /\ poolArr' = [x \in Pools |-> x]
    /\ ret' = This
    /\ calls' = <<>>
    /\ UNCHANGED <<entryData, entryMeta, metas, cands,
                 handlers, binder>>

Count ==
    /\ q # NoQuery
    /\ ret' = [op |-> "count", val |-> Len(ApplyFilters(EntriesOf(q.arr), q.filters)),
               evals |-> <<FilterRuns(EntriesOf(q.arr), q.filters)>>]
    /\ UNCHANGED <<heap, q, hist, qSnap, cands, binder>>

Selectors == {"first", "last", "random"}

(* minBy is Selectors.minBy('usedCount') *)
ApplySelector(sel, es, j) ==
    CASE sel = "first" -> First(es)
      [] sel = "last" -> Last(es)
      [] sel = "random" -> Random(es, j)
      [] sel = "minBy" -> MinBy(es, "usedCount")

(* materialize() sorts a copy, [...result], and writes to no array *)
HSortInPlace(h, qq) ==
    IF qq.filters = <<>> /\ Len(qq.sorters) > 0
    THEN [h EXCEPT !.arrays[qq.arr] =
             IdsOf(SortEntries(HEntriesOf(h, qq.arr), qq.sorters))]
    ELSE h

HSortCopy(h, qq) == h

(* select() of the query qq that pool p's query() returned: the wrapper
   materializes for beforeSelect, the original select materializes again
   and applies the selector, afterSelect carries the selected data, and get
   is emitted for the entry of this.entries that holds that data.  Each
   entry holds a data object of its own, so that entry is the selected one
   when the pool still has it *)
HSelect(h, p, qq, sel, j) ==
    LET materialized == MaterializeOver(qq, HEntriesOf(h, qq.arr))
        h1 == HEmit(HSortCopy(h, qq), p, "beforeSelect", EntriesArg(IdsOf(materialized)))
        over == MaterializeOver(qq, HEntriesOf(h1, qq.arr))
        chosen == ApplySelector(sel, over, j)
        selected == IF chosen # Null THEN chosen.data ELSE Null
        h2 == HEmit(h1, p, "afterSelect", DataArg(selected))
        h3 == IF chosen # Null /\ chosen.id \in Range(HArr(h2, p))
              THEN HEmit(h2, p, "get", EntryArg(chosen.id))
              ELSE h2
    IN  [h |-> h3, val |-> selected, over |-> IdsOf(over),
         ids |-> IF chosen # Null THEN <<chosen.id>> ELSE <<>>,
         evals |-> <<FilterRuns(HEntriesOf(h, qq.arr), qq.filters),
                     FilterRuns(HEntriesOf(h1, qq.arr), qq.filters)>>]

Select(sel, j) ==
    /\ q # NoQuery
    /\ \E r \in {HSelect(TheHeap, q.pool, q, sel, j)} :
           /\ Bounded(r.h)
           /\ SetHeap(r.h)
           /\ ret' = [op |-> "select", sel |-> sel, draw |-> j, val |-> r.val,
                      ids |-> r.ids, over |-> r.over, evals |-> r.evals]
    /\ UNCHANGED <<q, hist, qSnap, cands, binder>>

(* Pool.get(key, value) with key 'k' *)
Get(p, v) ==
    /\ IF Matching(TheHeap, Arr(p), v) # {}
       THEN LET entry == Arr(p)[MinOf(Matching(TheHeap, Arr(p), v))]
                h1 == HEmit(TheHeap, p, "get", EntryArg(entry))
            IN  /\ Bounded(h1)
                /\ SetHeap(h1)
                /\ ret' = [op |-> "get", key |-> v, val |-> h1.entryData[entry],
                           e |-> <<entry>>]
       ELSE /\ SetHeap(TheHeap)
            /\ ret' = [op |-> "get", key |-> v, val |-> Null, e |-> <<>>]
    /\ UNCHANGED <<q, hist, qSnap, cands, binder>>

On(p, ev, hd) ==
    /\ Suits(ev, hd)
    /\ Len(handlers[p][ev]) < MaxHandlers
    /\ SetHeap(HOn(TheHeap, p, ev, hd))
    /\ ret' = [op |-> "on", ev |-> ev, hd |-> hd]
    /\ UNCHANGED <<q, hist, qSnap, cands, binder>>

Off(p, ev, hd) ==
    /\ SetHeap(HOff(TheHeap, p, ev, hd))
    /\ ret' = [op |-> "off", ev |-> ev, hd |-> hd]
    /\ UNCHANGED <<q, hist, qSnap, cands, binder>>

(* pool.add(entry.data, entry.meta) for each materialized entry: a new entry
   object over the same metadata object *)
RECURSIVE HAddShared(_, _, _)
HAddShared(h, t, es) ==
    IF es = <<>> THEN h
    ELSE HAddShared(HAdd(h, t, h.entryData[Head(es)], h.entryMeta[Head(es)]), t, Tail(es))

ToPool(t) ==
    /\ q # NoQuery
    /\ q.pool # t
    /\ Len(entryData) + Len(Materialize(q)) <= MaxEntries
    /\ SetHeap(HAddShared(HNewPool(TheHeap, t, <<>>), t, IdsOf(Materialize(q))))
    /\ ret' = [op |-> "toPool", pool |-> t, ids |-> IdsOf(Materialize(q)),
               evals |-> <<FilterRuns(EntriesOf(q.arr), q.filters)>>]
    /\ UNCHANGED <<q, hist, qSnap, cands, binder>>

InitPools ==
    /\ arrays = [a \in ArrIds |-> <<>>]
    /\ poolArr = [p \in Pools |-> p]
    /\ entryData = <<>>
    /\ entryMeta = <<>>
    /\ metas = <<>>
    /\ q = NoQuery
    /\ hist = NoCalls
    /\ qSnap = <<>>
    /\ cands = <<>>
    /\ ret = This
    /\ handlers = [p \in Pools |-> NoHandlers]
    /\ calls = <<>>
    /\ binder = NoBinder

Batches == UNION {[1..n -> HeapData] : n \in 1..MaxBatch}

(* The caller's variables that hold the pools it builds; the last variable
   only ever receives a result *)
Callers == 1..(NumPools - 1)

(* The pool the caller works on *)
Owner == MinOf(Pools)

----------------------------------------------------------------------------
(* Metadata written by the caller; src/unnamed/part_007 *)

MetaBags == {EmptyBag, [p |-> 1]}

NextMeta ==
    \/ \E p \in Callers, d \in HeapData, bag \in MetaBags : Add(p, d, bag)
    \/ \E p \in Callers, v \in 1..MaxKey, d \in HeapData, bag \in MetaBags :
          Set(p, v, d, bag)
    \/ \E p \in Pools, i \in 1..MaxSize, v \in 0..1 : WriteMeta(p, i, v)
    \/ \E p \in Callers : QueryNew(p)
    \/ \E t \in Pools : ToPool(t)

SpecMeta == InitPools /\ [][NextMeta]_vars

(* The metadata seen through pool p, position by position *)
MetaOf(p) == [i \in 1..Len(Arr(p)) |-> metas[entryMeta[Arr(p)[i]]]]

(* C2: after np = pool.query()....toPool(), a metadata write on an entry of
   np leaves the metadata of every entry of the source pool as it was, and
   a write on an entry of the source pool leaves np's metadata as it was *)
C2_ToPoolMetaIsolated ==
    [][(/\ ret # This /\ ret.op = "toPool"
        /\ ret' # This /\ ret'.op = "writeMeta")
       => /\ (ret'.pool = ret.pool) => (MetaOf(q.pool)' = MetaOf(q.pool))
          /\ (ret'.pool = q.pool) => (MetaOf(ret.pool)' = MetaOf(ret.pool))]_vars

----------------------------------------------------------------------------
(* Pool: merging and set operations.  uniqueBy and groupBy are the field
   'k'; compareFn is the default, JSON.stringify equality of the data *)

(* source.toArray() of the query, on the heap h *)
HToArray(h) == DataOf(MaterializeOver(q, HEntriesOf(h, q.arr)))

(* A source of a merge is a pool, or the query: the source that is not
   instanceof Pool *)
TheQuery == 0

(* One source of merge(): push(...source.entries), or add(d) for each d *)
HMergeOne(h, p, src) ==
    IF src # TheQuery
    THEN [h EXCEPT !.arrays[h.poolArr[p]] = @ \o HArr(h, src)]
    ELSE HAddAll(h, p, HToArray(h))

RECURSIVE HMerge(_, _, _)
HMerge(h, p, srcs) ==
    IF srcs = <<>> THEN h
    ELSE HMerge(HMergeOne(h, p, Head(srcs)), p, Tail(srcs))

CanRead(srcs) == \A i \in 1..Len(srcs) : srcs[i] = TheQuery => q # NoQuery

Merge(p, srcs) ==
    /\ CanRead(srcs)
    /\ Fits(HMerge(TheHeap, p, srcs))
    /\ SetHeap(HMerge(TheHeap, p, srcs))
    /\ ret' = This
    /\ UNCHANGED <<q, hist, qSnap, cands, binder>>

KeysOf(h, seq) == {h.entryData[seq[i]].k : i \in 1..Len(seq)}

(* A loop that never adds a pushed entry's key to existingKeys *)
RECURSIVE HPushUniqueNoAdd(_, _, _, _)
HPushUniqueNoAdd(h, p, es, keys) ==
    IF es = <<>> THEN [h |-> h, keys |-> keys]
    ELSE IF h.entryData[Head(es)].k \in keys
         THEN HPushUniqueNoAdd(h, p, Tail(es), keys)
         ELSE HPushUniqueNoAdd(HPush(h, p, Head(es)), p, Tail(es), keys)

(* The entries of a pool source still absent from keys, each pushed as it is *)
RECURSIVE HPushUnique(_, _, _, _)
HPushUnique(h, p, es, keys) ==
    IF es = <<>> THEN [h |-> h, keys |-> keys]
    ELSE IF h.entryData[Head(es)].k \in keys
         THEN HPushUnique(h, p, Tail(es), keys)
         ELSE HPushUnique(HPush(h, p, Head(es)), p, Tail(es),
                          keys \cup {h.entryData[Head(es)].k})

(* The data of a query source still absent from keys, each added anew *)
RECURSIVE HAddUnique(_, _, _, _)
HAddUnique(h, p, ds, keys) ==
    IF ds = <<>> THEN [h |-> h, keys |-> keys]
    ELSE IF Head(ds).k \in keys
         THEN HAddUnique(h, p, Tail(ds), keys)
         ELSE HAddUnique(HAddFresh(h, p, Head(ds), EmptyBag), p, Tail(ds),
                         keys \cup {Head(ds).k})

RECURSIVE HMergeUniqueFrom(_, _, _, _)
HMergeUniqueFrom(h, p, srcs, keys) ==
    IF srcs = <<>> THEN h
    ELSE LET r == IF Head(srcs) # TheQuery
                  THEN HPushUnique(h, p, HArr(h, Head(srcs)), keys)
                  ELSE HAddUnique(h, p, HToArray(h), keys)
         IN  HMergeUniqueFrom(r.h, p, Tail(srcs), r.keys)

(* existingKeys is taken once, before the first source *)
HMergeUnique(h, p, srcs) == HMergeUniqueFrom(h, p, srcs, KeysOf(h, HArr(h, p)))

MergeUnique(p, srcs) ==
    /\ CanRead(srcs)
    /\ Fits(HMergeUnique(TheHeap, p, srcs))
    /\ SetHeap(HMergeUnique(TheHeap, p, srcs))
    /\ ret' = [op |-> "mergeUnique", pool |-> p, before |-> Arr(p),
               given |-> [i \in 1..Len(srcs) |->
                            IF srcs[i] # TheQuery THEN Arr(srcs[i]) ELSE <<>>]]
    /\ UNCHANGED <<q, hist, qSnap, cands, binder>>

(* every in the place of some *)
EveryEqual(h, seq, e) == \A i \in 1..Len(seq) : h.entryData[seq[i]] = h.entryData[e]

(* this.entries.some(entry => compare(entry.data, e.data)) *)
SomeEqual(h, seq, e) == \E i \in 1..Len(seq) : h.entryData[seq[i]] = h.entryData[e]

(* A loop that looks for an equal only among the entries held at the start *)
RECURSIVE HUnionPrior(_, _, _, _)
HUnionPrior(h, p, es, prior) ==
    IF es = <<>> THEN h
    ELSE IF SomeEqual(h, prior, Head(es))
         THEN HUnionPrior(h, p, Tail(es), prior)
         ELSE HUnionPrior(HPush(h, p, Head(es)), p, Tail(es), prior)

HUnionFromPrior(h, p, es) == HUnionPrior(h, p, es, HArr(h, p))

RECURSIVE HUnion(_, _, _)
HUnion(h, p, es) ==
    IF es = <<>> THEN h
    ELSE IF SomeEqual(h, HArr(h, p), Head(es))
         THEN HUnion(h, p, Tail(es))
         ELSE HUnion(HPush(h, p, Head(es)), p, Tail(es))

Union(p, other) ==
    /\ Fits(HUnion(TheHeap, p, Arr(other)))
    /\ SetHeap(HUnion(TheHeap, p, Arr(other)))
    /\ ret' = [op |-> "union", pool |-> p, other |-> other,
               before |-> Arr(p), given |-> Arr(other)]
    /\ UNCHANGED <<q, hist, qSnap, cands, binder>>

Intersect(p, other) ==
    /\ SetHeap(HAssign(TheHeap, p,
            SelectSeq(Arr(p), LAMBDA e : SomeEqual(TheHeap, Arr(other), e))))
    /\ ret' = [op |-> "intersect", pool |-> p, other |-> other,
               before |-> Arr(p), given |-> Arr(other)]
    /\ UNCHANGED <<q, hist, qSnap, cands, binder>>

Difference(p, other) ==
    /\ SetHeap(HAssign(TheHeap, p,
            SelectSeq(Arr(p), LAMBDA e : ~SomeEqual(TheHeap, Arr(other), e))))
    /\ ret' = [op |-> "difference", pool |-> p, other |-> other,
               before |-> Arr(p), given |-> Arr(other)]
    /\ UNCHANGED <<q, hist, qSnap, cands, binder>>

(* clone(): a new pool of new entries, each with its source entry's data
   and a copy of its metadata *)
RECURSIVE HCloneAll(_, _, _)
HCloneAll(h, t, es) ==
    IF es = <<>> THEN h
    ELSE LET h1 == HNewBag(h, h.metas[h.entryMeta[Head(es)]])
             h2 == HNewEntry(h1, h.entryData[Head(es)], Len(h1.metas))
         IN  HCloneAll(HPush(h2, t, Len(h2.entryData)), t, Tail(es))

HClone(h, p, t) == HCloneAll(HNewPool(h, t, <<>>), t, HArr(h, p))

Clone(p, t) ==
    /\ t # p /\ Spare(t)
    /\ Fits(HClone(TheHeap, p, t))
    /\ SetHeap(HClone(TheHeap, p, t))
    /\ ret' = [op |-> "clone", pool |-> p, into |-> t]
    /\ UNCHANGED <<q, hist, qSnap, cands, binder>>

(* The filter of deduplicate(): an entry stays when its key is not yet seen *)
RECURSIVE FirstOfKey(_, _, _)
FirstOfKey(h, es, seen) ==
    IF es = <<>> THEN <<>>
    ELSE IF h.entryData[Head(es)].k \in seen
         THEN FirstOfKey(h, Tail(es), seen)
         ELSE <<Head(es)>> \o FirstOfKey(h, Tail(es), seen \cup {h.entryData[Head(es)].k})

Deduplicate(p) ==
    /\ SetHeap(HAssign(TheHeap, p, FirstOfKey(TheHeap, Arr(p), {})))
    /\ ret' = This
    /\ UNCHANGED <<q, hist, qSnap, cands, binder>>

Swap(seq, i, j) == [seq EXCEPT ![i] = seq[j], ![j] = seq[i]]

(* The loop of shuffle() from index i (1-based) down to 2; draws[i] is
   the Math.random() of that round, and the partner is floor(random * i) + 1 *)
RECURSIVE Shuffled(_, _, _)
Shuffled(seq, i, draws) ==
    IF i < 2 THEN seq
    ELSE Shuffled(Swap(seq, i, ((draws[i] * i) \div RandDenom) + 1), i - 1, draws)

Shuffle(p, draws) ==
    /\ arrays' = [arrays EXCEPT ![poolArr[p]] = Shuffled(@, Len(@), draws)]
    /\ ret' = This
    /\ calls' = <<>>
    /\ UNCHANGED <<poolArr, entryData, entryMeta, metas, q, hist, qSnap, cands,
                 handlers, binder>>

----------------------------------------------------------------------------
(* Pool: the operations that return new pools.  The caller stores a returned
   pool in one of its variables *)

(* A predicate every entry satisfies *)
PartitionAny(h, e) == TRUE

(* predicate of partition(): entry.data.k = 1 *)
PartitionPred(h, e) == h.entryData[e].k = 1

Partition(p, t1, t2) ==
    /\ t1 # t2 /\ p \notin {t1, t2}
    /\ Spare(t1) /\ Spare(t2)
    /\ LET matching == SelectSeq(Arr(p), LAMBDA e : PartitionPred(TheHeap, e))
           notMatching == SelectSeq(Arr(p), LAMBDA e : ~PartitionPred(TheHeap, e))
       IN  SetHeap(HNewPool(HNewPool(TheHeap, t1, matching), t2, notMatching))
    /\ ret' = [op |-> "partition", pool |-> p, before |-> Arr(p), into |-> <<t1, t2>>]
    /\ UNCHANGED <<q, hist, qSnap, cands, binder>>

(* The keys of the Map in insertion order: the order of first appearance *)
GroupKeys(h, seq) ==
    LET firsts == FirstOfKey(h, seq, {})
    IN  [i \in 1..Len(firsts) |-> h.entryData[firsts[i]].k]

(* A group that takes every entry *)
GroupOfAny(h, seq, key) == seq

GroupOf(h, seq, key) == SelectSeq(seq, LAMBDA e : h.entryData[e].k = key)

RECURSIVE HStoreGroups(_, _, _, _)
HStoreGroups(h, seq, keys, ts) ==
    IF keys = <<>> THEN h
    ELSE HStoreGroups(HNewPool(h, Head(ts), GroupOf(h, seq, Head(keys))),
                      seq, Tail(keys), Tail(ts))

(* The caller keeps the pools of the returned Map, in the Map's order, in
   the variables ts *)
GroupBy(p, ts) ==
    /\ Len(ts) = MaxKey
    /\ \A i \in 1..Len(ts) : ts[i] # p /\ Spare(ts[i])
    /\ \A i, j \in 1..Len(ts) : i # j => ts[i] # ts[j]
    /\ Arr(p) # <<>>
    /\ SetHeap(HStoreGroups(TheHeap, Arr(p), GroupKeys(TheHeap, Arr(p)), ts))
    /\ ret' = [op |-> "groupBy", pool |-> p, before |-> Arr(p),
               keys |-> GroupKeys(TheHeap, Arr(p)), into |-> ts]
    /\ UNCHANGED <<q, hist, qSnap, cands, binder>>

Perms(n) == {f \in [1..n -> 1..n] : \A i, j \in 1..n : f[i] = f[j] => i = j}

(* [...this.entries].sort(() => Math.random() - 0.5) is some permutation
   perm of the entries; slice(0, count) of it becomes the new pool's array *)
Sample(p, t, count, perm) ==
    /\ t # p /\ Spare(t)
    /\ perm \in Perms(Len(Arr(p)))
    /\ LET shuffled == [i \in 1..Len(Arr(p)) |-> Arr(p)[perm[i]]]
       IN  SetHeap(HNewPool(TheHeap, t, Slice(shuffled, 0, count)))
    /\ ret' = This
    /\ UNCHANGED <<q, hist, qSnap, cands, binder>>

(* static merge: a new pool, then merged.merge(pool) for each pool *)
StaticMerge(t, srcs) ==
    /\ Spare(t)
    /\ \A i \in 1..Len(srcs) : srcs[i] # t
    /\ Fits(HMerge(HNewPool(TheHeap, t, <<>>), t, srcs))
    /\ SetHeap(HMerge(HNewPool(TheHeap, t, <<>>), t, srcs))
    /\ ret' = [op |-> "static", fn |-> "merge", inputs |-> srcs, into |-> <<t>>]
    /\ UNCHANGED <<q, hist, qSnap, cands, binder>>

RECURSIVE HMergeUniqueEach(_, _, _)
HMergeUniqueEach(h, t, srcs) ==
    IF srcs = <<>> THEN h
    ELSE HMergeUniqueEach(HMergeUnique(h, t, <<Head(srcs)>>), t, Tail(srcs))

(* static mergeUnique: a new pool, then merged.mergeUnique(uniqueBy, source)
   for each source *)
StaticMergeUnique(t, srcs) ==
    /\ Spare(t)
    /\ CanRead(srcs)
    /\ \A i \in 1..Len(srcs) : srcs[i] # t
    /\ Fits(HMergeUniqueEach(HNewPool(TheHeap, t, <<>>), t, srcs))
    /\ SetHeap(HMergeUniqueEach(HNewPool(TheHeap, t, <<>>), t, srcs))
    /\ ret' = [op |-> "static", fn |-> "mergeUnique", inputs |-> srcs, into |-> <<t>>]
    /\ UNCHANGED <<q, hist, qSnap, cands, binder>>

(* The resolveDuplicate functions of the caller: keep the existing entry,
   or take the duplicate *)
Resolvers == {"existing", "duplicate"}

(* The Map of mergeUniqueWith as the sequence of its values in insertion
   order: the entry of a key met again is replaced in place by what
   resolveDuplicate returns *)
RECURSIVE MapValues(_, _, _, _)
MapValues(h, es, resolver, map) ==
    IF es = <<>> THEN map
    ELSE LET key == h.entryData[Head(es)].k
             at == {i \in 1..Len(map) : h.entryData[map[i]].k = key}
         IN  MapValues(h, Tail(es), resolver,
                 IF at = {} THEN Append(map, Head(es))
                 ELSE [i \in 1..Len(map) |->
                          IF i \in at /\ resolver = "duplicate" THEN Head(es) ELSE map[i]])

RECURSIVE HConcat(_, _)
HConcat(h, srcs) ==
    IF srcs = <<>> THEN <<>> ELSE HArr(h, Head(srcs)) \o HConcat(h, Tail(srcs))

(* static mergeUniqueWith over pool sources: merged.entries becomes
   Array.from(map.values()) *)
StaticMergeUniqueWith(t, srcs, resolver) ==
    /\ Spare(t)
    /\ \A i \in 1..Len(srcs) : srcs[i] # t
    /\ LET values == MapValues(TheHeap, HConcat(TheHeap, srcs), resolver, <<>>)
       IN  /\ Len(values) <= MaxSize
           /\ SetHeap(HNewPool(TheHeap, t, values))
    /\ ret' = [op |-> "static", fn |-> "mergeUniqueWith", inputs |-> srcs, into |-> <<t>>]
    /\ UNCHANGED <<q, hist, qSnap, cands, binder>>

(* An intersect that filters pool1 itself and hands out its entries *)
HStaticIntersectNoClone(h, t, pool1, pool2) ==
    LET kept == SelectSeq(HArr(h, pool1), LAMBDA e : SomeEqual(h, HArr(h, pool2), e))
    IN  HNewPool(HAssign(h, pool1, kept), t, kept)

(* static intersect: result = pool1.clone(), then result.intersect(pool2) *)
HStaticIntersect(h, t, pool1, pool2) ==
    LET h1 == HClone(h, pool1, t)
    IN  HAssign(h1, t, SelectSeq(HArr(h1, t),
                                 LAMBDA e : SomeEqual(h1, HArr(h1, pool2), e)))

StaticIntersect(t, pool1, pool2) ==
    /\ Spare(t)
    /\ t \notin {pool1, pool2}
    /\ Fits(HClone(TheHeap, pool1, t))
    /\ SetHeap(HStaticIntersect(TheHeap, t, pool1, pool2))
    /\ ret' = [op |-> "static", fn |-> "intersect", inputs |-> <<pool1, pool2>>,
               into |-> <<t>>]
    /\ UNCHANGED <<q, hist, qSnap, cands, binder>>

(* static groupBy over pool sources: a new pool takes the entries of every
   source by merge and is grouped; the caller keeps the pools of the
   returned Map in the variables ts *)
StaticGroupBy(srcs, ts) ==
    /\ Len(ts) = MaxKey
    /\ \A i \in 1..Len(ts) : Spare(ts[i]) /\ \A j \in 1..Len(srcs) : ts[i] # srcs[j]
    /\ \A i, j \in 1..Len(ts) : i # j => ts[i] # ts[j]
    /\ LET merged == HConcat(TheHeap, srcs)
       IN  /\ Len(merged) <= MaxSize
           /\ SetHeap(HStoreGroups(TheHeap, merged, GroupKeys(TheHeap, merged), ts))
    /\ ret' = [op |-> "static", fn |-> "groupBy", inputs |-> srcs, into |-> ts]
    /\ UNCHANGED <<q, hist, qSnap, cands, binder>>

----------------------------------------------------------------------------
(* A pool and the queries over it *)

SourceLists(S) == UNION {[1..n -> S] : n \in 1..MaxBatch}

NextCrud ==
    \/ \E p \in Callers, d \in HeapData : Add(p, d, EmptyBag)
    \/ \E p \in Callers, ds \in Batches : AddBatch(p, ds)
    \/ \E p \in Callers, v \in 1..MaxKey : Delete(p, v)
    \/ \E p \in Callers, v \in 1..MaxKey : Remove(p, v)
    \/ \E p \in Callers, vs \in SUBSET (1..MaxKey) : RemoveBatch(p, vs)
    \/ \E p \in Callers : QueryNew(p)
    \/ ToArray
    \/ Count
    \/ \E sel \in Selectors, j \in Draws : Select(sel, j)
    \/ \E t \in Pools : ToPool(t)
    \/ \E p \in Callers, srcs \in SourceLists({TheQuery}) : Merge(p, srcs)
    \/ \E p \in Callers, srcs \in SourceLists({TheQuery}) : MergeUnique(p, srcs)

SpecCrud == InitPools /\ [][NextCrud]_vars

(* C1: every materializing call on a query is computed from the pool's
   entry sequence as it stood when query() was called; entries added to or
   removed from the pool afterwards do not change the result *)
C1_QuerySnapshot ==
    /\ (ret # This /\ ret.op \in {"toArray", "toPool"}) =>
            ret.ids = IdsOf(MaterializeOver(q, Original))
    /\ (ret # This /\ ret.op = "count") =>
            ret.val = Len(ApplyFilters(Original, q.filters))
    /\ (ret # This /\ ret.op = "select") =>
            LET selected == ApplySelector(ret.sel, MaterializeOver(q, Original), ret.draw)
            IN  ret.ids = IF selected # Null THEN <<selected.id>> ELSE <<>>

----------------------------------------------------------------------------
(* The operations that keep or change one pool's sequence *)

ShuffleDraws == [2..MaxSize -> Draws]

NextSeq ==
    \/ \E p \in Callers, d \in HeapData : Add(p, d, EmptyBag)
    \/ \E p \in Callers, ds \in Batches : AddBatch(p, ds)
    \/ \E p \in Callers, v \in 1..MaxKey, d \in HeapData : Set(p, v, d, EmptyBag)
    \/ \E p \in Callers, v \in 1..MaxKey : Delete(p, v)
    \/ \E p \in Callers, v \in 1..MaxKey : Remove(p, v)
    \/ \E p \in Callers, vs \in SUBSET (1..MaxKey) : RemoveBatch(p, vs)
    \/ \E p \in Callers, srcs \in SourceLists(Callers) : Merge(p, srcs)
    \/ \E p \in Callers, srcs \in SourceLists(Callers) : MergeUnique(p, srcs)
    \/ \E p, other \in Callers : Union(p, other)
    \/ \E p, other \in Callers : Intersect(p, other)
    \/ \E p, other \in Callers : Difference(p, other)
    \/ \E p \in Callers : Deduplicate(p)
    \/ \E p \in Callers, draws \in ShuffleDraws : Shuffle(p, draws)

SpecSeq == InitPools /\ [][NextSeq]_vars

(* C4: each entry of a pool occupies exactly one position of that pool's
   sequence: no entry object appears twice *)
C4_EntryOnce ==
    \A p \in Pools : \A i, j \in 1..Len(Arr(p)) : Arr(p)[i] = Arr(p)[j] => i = j

----------------------------------------------------------------------------
(* The operations that pass entries from pool to pool *)

NextOwn ==
    \/ \E p \in Callers, d \in HeapData : Add(p, d, EmptyBag)
    \/ \E srcs \in SourceLists(Callers) : Merge(Owner, srcs)
    \/ \E srcs \in SourceLists(Callers) : MergeUnique(Owner, srcs)
    \/ \E other \in Callers : Union(Owner, other)
    \/ \E p \in Callers, t1, t2 \in Pools : Partition(p, t1, t2)
    \/ \E p \in Callers, ts \in [1..MaxKey -> Pools] : GroupBy(p, ts)
    \/ \E p \in Callers, t \in Pools, count \in 1..MaxSize :
          \E perm \in Perms(Len(Arr(p))) : Sample(p, t, count, perm)
    \/ \E t \in Pools \ Callers, srcs \in SourceLists(Callers) : StaticMerge(t, srcs)
    \/ \E t \in Pools \ Callers, srcs \in SourceLists(Callers) : StaticMergeUnique(t, srcs)
    \/ \E p \in Pools, i \in 1..MaxSize : WriteMeta(p, i, 1)

SpecOwn == InitPools /\ [][NextOwn]_vars

EntriesIn(p) == Range(Arr(p))

BagsIn(p) == {entryMeta[e] : e \in EntriesIn(p)}

(* C3: no entry, and no metadata bag, is held by two distinct pools *)
C3_ExclusiveOwnership ==
    \A p1, p2 \in Pools :
        p1 # p2 => /\ EntriesIn(p1) \cap EntriesIn(p2) = {}
                   /\ BagsIn(p1) \cap BagsIn(p2) = {}

----------------------------------------------------------------------------
(* Selectors.weighted and candidates of weight 0 *)

(* C11: for candidates with non-negative weights whose total is positive,
   weighted never returns a candidate of weight 0, whatever the draw and
   wherever the zero-weight candidates stand in the list *)
C11_WeightedSkipsZero ==
    (/\ ret # This /\ ret.op = "weighted"
     /\ \A i \in 1..Len(ret.given) : WeightFn(ret.given[i]) >= 0
     /\ SeqSum(WeightsOf(ret.given)) > 0)
    => (ret.val # Null /\ WeightFn(ret.val) # 0)

----------------------------------------------------------------------------
(* PoolBinder (src/unnamed/part_010).  binder.pools is the Map of bound
   pools in insertion order; filters and selectors are Maps by name *)

Names == {"a", "b"}

NameAt(i) == binder.pools[i].name

Bound == {NameAt(i) : i \in 1..Len(binder.pools)}

(* Map.set: a present key keeps its place and takes the new value *)
Bind(name, p) ==
    /\ binder' = [binder EXCEPT !.pools =
            IF name \in Bound
            THEN [i \in 1..Len(@) |-> IF @[i].name = name
                                      THEN [name |-> name, pool |-> p] ELSE @[i]]
            ELSE Append(@, [name |-> name, pool |-> p])]
    /\ ret' = This
    /\ UNCHANGED <<heap, q, hist, qSnap, cands>>

FiltersOf(name) ==
    IF name \in DOMAIN binder.filters THEN binder.filters[name] ELSE <<>>

BinderWhere(name, pred) ==
    /\ Len(FiltersOf(name)) < MaxFilters
    /\ binder' = [binder EXCEPT !.filters =
            [n \in DOMAIN @ \cup {name} |->
                IF n = name THEN Append(FiltersOf(name), pred) ELSE @[n]]]
    /\ ret' = This
    /\ UNCHANGED <<heap, q, hist, qSnap, cands>>

SelectWith(name, sel) ==
    /\ binder' = [binder EXCEPT !.selectors =
            [n \in DOMAIN @ \cup {name} |-> IF n = name THEN sel ELSE @[n]]]
    /\ ret' = This
    /\ UNCHANGED <<heap, q, hist, qSnap, cands>>

(* this.selectors.get(name) || Selectors.first *)
SelectorOf(name) ==
    IF name \in DOMAIN binder.selectors THEN binder.selectors[name] ELSE "first"

(* pool.query() with query.where(filter) for each filter of the name *)
BinderQuery(h, name, p) ==
    [NewQuery(p, h.poolArr[p]) EXCEPT !.filters =
        [i \in 1..Len(FiltersOf(name)) |-> {FiltersOf(name)[i]}]]

NoResult == [n \in {} |-> Null]

(* execute() that passes over a pool without a selection *)
RECURSIVE HExecuteSkip(_, _, _, _)
HExecuteSkip(h, i, result, draws) ==
    IF i > Len(binder.pools) THEN [h |-> h, absent |-> FALSE, val |-> result]
    ELSE LET name == NameAt(i)
             pool == binder.pools[i].pool
             r == HSelect(h, pool, BinderQuery(h, name, pool), SelectorOf(name), draws[i])
         IN  HExecuteSkip(r.h, i + 1,
                          IF r.val = Null THEN result
                          ELSE [n \in DOMAIN result \cup {name} |->
                                   IF n = name THEN r.val ELSE result[n]],
                          draws)

(* The loop of execute() from the i-th bound pool on; draws[i] is the
   Math.random() of the i-th selection *)
RECURSIVE HExecute(_, _, _, _)
HExecute(h, i, result, draws) ==
    IF i > Len(binder.pools) THEN [h |-> h, absent |-> FALSE, val |-> result]
    ELSE LET name == NameAt(i)
             pool == binder.pools[i].pool
             r == HSelect(h, pool, BinderQuery(h, name, pool), SelectorOf(name), draws[i])
         IN  IF r.val = Null THEN [h |-> r.h, absent |-> TRUE, val |-> NoResult]
             ELSE HExecute(r.h, i + 1,
                           [n \in DOMAIN result \cup {name} |->
                               IF n = name THEN r.val ELSE result[n]],
                           draws)

Execute(draws) ==
    /\ \E r \in {HExecute(TheHeap, 1, NoResult, draws)} :
           /\ Bounded(r.h)
           /\ SetHeap(r.h)
           /\ ret' = [op |-> "execute", absent |-> r.absent, val |-> r.val]
    /\ UNCHANGED <<q, hist, qSnap, cands, binder>>

(* Entries are added with the counter the get handler increments *)
Unused == [usedCount |-> 0]

(* The pool each name is bound to *)
PoolOf(name) == IF name = "a" THEN 1 ELSE 2

(* The selectors are deterministic: no draw is read *)
ExecuteDraws == [1..Cardinality(Names) -> {0}]

NextBind ==
    \/ \E name \in Names, d \in HeapData : Add(PoolOf(name), d, Unused)
    \/ On(PoolOf("a"), "get", "count")
    \/ \E name \in Names : Bind(name, PoolOf(name))
    \/ BinderWhere("a", "k1")
    \/ SelectWith("a", "minBy")
    \/ \E draws \in ExecuteDraws : Execute(draws)

SpecBind == InitPools /\ [][NextBind]_vars

IsExecute(r) == r # This /\ r.op = "execute"

(* The entries of the pool bound to the i-th name that pass every filter
   registered for that name *)
PassingOf(i) ==
    {e \in Range(Arr(binder.pools[i].pool)) :
        \A f \in 1..Len(FiltersOf(NameAt(i))) : Holds(FiltersOf(NameAt(i))[f], Entry(e))}

(* C12: execute() returns null exactly when some bound pool has no entry
   passing all filters of its name; otherwise it returns a mapping over
   exactly the bound names, each to the data of a passing entry of its pool;
   with no bound pool the mapping is empty and not null *)
C12_AllOrNothing ==
    IsExecute(ret) =>
        /\ ret.absent <=> (\E i \in 1..Len(binder.pools) : PassingOf(i) = {})
        /\ ~ret.absent =>
               /\ DOMAIN ret.val = Bound
               /\ \A i \in 1..Len(binder.pools) :
                      \E e \in PassingOf(i) : ret.val[NameAt(i)] = entryData[e]

C12_Witness ==
    /\ IsExecute(ret) /\ ret.absent
    /\ Len(binder.pools) = Cardinality(Names)
    /\ PassingOf(1) # {}
    /\ FiltersOf(NameAt(Len(binder.pools))) # <<>>
    /\ Arr(binder.pools[Len(binder.pools)].pool) # <<>>
    /\ PassingOf(Len(binder.pools)) = {}

(* C13: an execute() that returns null leaves every pool's entry sequence
   and every entry's data and metadata as they were *)
C13_AbsentExecuteMutatesNothing ==
    [][(IsExecute(ret') /\ ret'.absent)
       => UNCHANGED <<arrays, poolArr, entryData, entryMeta, metas>>]_vars

(* C14: execute() leaves the binder as it was, and of two consecutive
   execute() calls the second returns the mapping the first returned (the
   selectors here are first and minBy) *)
C14_ExecuteRepeatable ==
    [][(IsExecute(ret) /\ IsExecute(ret'))
       => /\ binder' = binder
          /\ ret'.absent = ret.absent
          /\ ret'.val = ret.val]_vars

----------------------------------------------------------------------------
(* Pool.on, Pool.off and the emissions of one pool: the caller registers and
   unregisters handlers for add and get, adds entries and gets them *)

IsOp(r, op) == r # This /\ r.op = op

NextHandlers ==
    \/ \E d \in HeapData : Add(Owner, d, Unused)
    \/ \E v \in 1..MaxKey : Get(Owner, v)
    \/ \E ev \in {"add", "get"}, hd \in HandlerKinds : On(Owner, ev, hd)
    \/ \E ev \in {"add", "get"}, hd \in HandlerKinds : Off(Owner, ev, hd)

SpecHandlers == InitPools /\ [][NextHandlers]_vars

(* C15: in every emission of the operation that has just returned, the
   handlers invoked are exactly the handlers that were registered for the
   event when the emission started, each once and in registration order,
   whatever the handlers do, calls of on() and off() for the same event
   included *)
C15_EveryHandlerRuns ==
    \A i \in 1..Len(calls) : calls[i].ran = calls[i].at

(* C16: the operation that follows a returned off(event, h), unless it is
   on(), invokes h in no emission of that event; and off(event, h) for a
   handler that is not registered for the event leaves every handler list
   as it was *)
C16_OffSilences ==
    [][/\ IsOp(ret, "off") =>
            \A i \in 1..Len(calls') :
                calls'[i].ev = ret.ev => ret.hd \notin Range(calls'[i].ran)
       /\ (IsOp(ret', "off") /\ ret'.hd \notin Range(handlers[Owner][ret'.ev]))
            => handlers' = handlers]_vars

(* How many times hd is registered in list *)
CountOf(list, hd) == Cardinality({i \in 1..Len(list) : list[i] = hd})

(* C18: a get(key, value) that finds an entry returns the data of the first
   entry with data[key] = value after it has invoked every registered get
   handler once, in order, with that entry, so that each registered
   usedCount-incrementing handler has raised the entry's usedCount by one;
   a get that finds nothing invokes no handler, returns null and changes no
   metadata *)
C18_GetInvokesHandlers ==
    [][IsOp(ret', "get") =>
        IF ret'.e # <<>>
        THEN LET entry == ret'.e[1]
                 registered == handlers[Owner]["get"]
             IN  /\ entry = Arr(Owner)[MinOf(Matching(TheHeap, Arr(Owner), ret'.key))]
                 /\ ret'.val = entryData[entry]
                 /\ registered # <<>> =>
                        /\ Len(calls') = 1
                        /\ calls'[1].ev = "get"
                        /\ calls'[1].arg = EntryArg(entry)
                        /\ calls'[1].ran = registered
                 /\ metas'[entryMeta'[entry]]["usedCount"] =
                        metas[entryMeta[entry]]["usedCount"]
                            + CountOf(registered, "count")
        ELSE /\ Matching(TheHeap, Arr(Owner), ret'.key) = {}
             /\ ret'.val = Null
             /\ calls' = <<>>
             /\ metas' = metas]_vars

----------------------------------------------------------------------------
(* select() of the query that Pool.query() returns, with handlers for
   beforeSelect and afterSelect *)

NextSelect ==
    \/ \E d \in HeapData : Add(Owner, d, Unused)
    \/ QueryNew(Owner)
    \/ Where("fresh")
    \/ \E sel \in {"first", "last"} : Select(sel, 0)
    \/ \E ev \in {"beforeSelect", "afterSelect"}, hd \in {"note", "mark"} :
            On(Owner, ev, hd)

SpecSelect == InitPools /\ [][NextSelect]_vars

(* The emissions of ev by the operation that has just returned, as its
   handlers saw them *)
EmissionsOf(ev) == SelectSeq(calls, LAMBDA c : c.ev = ev)

(* C17: a select() that has returned has emitted beforeSelect once, with
   the materialized entries the selector was applied to, and then
   afterSelect once, with the value select returned (null included) *)
C17_SelectEvents ==
    IsOp(ret, "select") =>
        /\ handlers[Owner]["beforeSelect"] # <<>> =>
                /\ Len(EmissionsOf("beforeSelect")) = 1
                /\ EmissionsOf("beforeSelect")[1].arg = EntriesArg(ret.over)
        /\ handlers[Owner]["afterSelect"] # <<>> =>
                /\ Len(EmissionsOf("afterSelect")) = 1
                /\ EmissionsOf("afterSelect")[1].arg = DataArg(ret.val)
        /\ \A i, j \in 1..Len(calls) :
                (calls[i].ev = "beforeSelect" /\ calls[j].ev = "afterSelect") => i < j

----------------------------------------------------------------------------
(* The events of addBatch, remove, removeBatch and set, seen by handlers
   that only observe *)

NextBatch ==
    \/ \E ds \in Batches : AddBatch(Owner, ds)
    \/ \E v \in 1..MaxKey : Remove(Owner, v)
    \/ \E vs \in SUBSET (1..MaxKey) : RemoveBatch(Owner, vs)
    \/ \E v \in 1..MaxKey, d \in HeapData : Set(Owner, v, d, EmptyBag)
    \/ \E ev \in {"add", "set", "remove", "batchAdd", "batchRemove"} :
            On(Owner, ev, "note")

SpecBatch == InitPools /\ [][NextBatch]_vars

(* The arguments of the emissions of ev, in order *)
ArgsOf(ev) == [i \in 1..Len(EmissionsOf(ev)) |-> EmissionsOf(ev)[i].arg]

(* C19: an addBatch that has returned has emitted batchAdd once, with the
   entries it created, and no add; a removeBatch has emitted batchRemove
   once, with the entries it removed, and no remove; a remove has emitted
   remove once for each entry it removed, and no batchRemove *)
C19_BatchEvents ==
    /\ IsOp(ret, "addBatch") =>
            /\ EmissionsOf("add") = <<>>
            /\ handlers[Owner]["batchAdd"] # <<>> =>
                    ArgsOf("batchAdd") = <<EntriesArg(ret.es)>>
    /\ IsOp(ret, "removeBatch") =>
            /\ EmissionsOf("remove") = <<>>
            /\ handlers[Owner]["batchRemove"] # <<>> =>
                    ArgsOf("batchRemove") = <<EntriesArg(ret.es)>>
    /\ IsOp(ret, "remove") =>
            /\ EmissionsOf("batchRemove") = <<>>
            /\ handlers[Owner]["remove"] # <<>> =>
                    ArgsOf("remove") = [i \in 1..Len(ret.es) |-> EntryArg(ret.es[i])]

(* C20: a set that has returned has emitted set once, with the entry that
   now holds the data: the updated entry, still in the pool, or the new
   entry at the end of the pool *)
C20_SetEmitsSet ==
    IsOp(ret, "set") =>
        /\ ret.e \in Range(Arr(Owner))
        /\ ret.added => Arr(Owner)[Len(Arr(Owner))] = ret.e
        /\ handlers[Owner]["set"] # <<>> =>
                ArgsOf("set") = <<EntryArg(ret.e)>>

----------------------------------------------------------------------------
(* mergeUnique into the caller's first pool, with uniqueBy the field k;
   the sources are the caller's pools, the first included, and a clone of
   the first pool *)

NextMergeUnique ==
    \/ \E p \in Callers, d \in HeapData : Add(p, d, EmptyBag)
    \/ \E t \in Pools \ Callers : Clone(Owner, t)
    \/ \E srcs \in [{1, 2} -> Pools] : MergeUnique(Owner, srcs)

SpecMergeUnique == InitPools /\ [][NextMergeUnique]_vars

RECURSIVE Concat(_)
Concat(seqs) == IF seqs = <<>> THEN <<>> ELSE Head(seqs) \o Concat(Tail(seqs))

(* The elements of seq at the positions in I, in the order of seq *)
RECURSIVE At(_, _)
At(seq, I) ==
    IF seq = <<>> THEN <<>>
    ELSE At(SubSeq(seq, 1, Len(seq) - 1), I)
            \o (IF Len(seq) \in I THEN <<seq[Len(seq)]>> ELSE <<>>)

KeyAt(e) == entryData[e].k

(* The positions of all whose key is the key of no entry of held and of no
   earlier position of all *)
FirstSeen(all, held) ==
    {i \in 1..Len(all) :
        /\ \A j \in 1..Len(held) : KeyAt(held[j]) # KeyAt(all[i])
        /\ \A j \in 1..(i - 1) : KeyAt(all[j]) # KeyAt(all[i])}

(* C21: after mergeUnique over pool sources the pool holds its prior
   entries, in their order, followed by the source entries, in argument
   order and source order, whose key is the key of no prior entry and of no
   earlier source entry; merging a copy of the pool appends nothing *)
C21_MergeUniqueFirstWins ==
    IsOp(ret, "mergeUnique") =>
        LET all == Concat(ret.given)
        IN  Arr(ret.pool) = ret.before \o At(all, FirstSeen(all, ret.before))

(* A call that appended an entry and passed over a later one of the same key *)
C21_Witness ==
    /\ IsOp(ret, "mergeUnique")
    /\ LET all == Concat(ret.given)
       IN  \E i, j \in 1..Len(all) :
               /\ i < j
               /\ i \in FirstSeen(all, ret.before)
               /\ KeyAt(all[i]) = KeyAt(all[j])
               /\ all[i] # all[j]

----------------------------------------------------------------------------
(* union between the caller's pools, with the default comparison of data *)

NextUnion ==
    \/ \E p \in Callers, d \in HeapData : Add(p, d, EmptyBag)
    \/ \E p, other \in Callers : Union(p, other)

SpecUnion == InitPools /\ [][NextUnion]_vars

(* The positions of seq whose data equals the data of no entry of held *)
NoEqualIn(seq, held) ==
    {i \in 1..Len(seq) : \A j \in 1..Len(held) : entryData[held[j]] # entryData[seq[i]]}

(* The positions of seq whose data equals the data of no earlier position *)
FirstOfData(seq) ==
    {i \in 1..Len(seq) : \A j \in 1..(i - 1) : entryData[seq[j]] # entryData[seq[i]]}

(* C22: after union the pool holds its prior entries followed, in other's
   order, by the entries of other whose data equals the data of no prior
   entry and of no earlier entry of other; other is as it was *)
C22_UnionNoDuplicates ==
    IsOp(ret, "union") =>
        /\ Arr(ret.pool) = ret.before
                \o At(ret.given, NoEqualIn(ret.given, ret.before) \cap FirstOfData(ret.given))
        /\ Arr(ret.other) = ret.given

(* A union that appended an entry of other and passed over a later entry
   of other with the same data *)
C22_Witness ==
    /\ IsOp(ret, "union")
    /\ \E i, j \in 1..Len(ret.given) :
            /\ i < j
            /\ i \in NoEqualIn(ret.given, ret.before)
            /\ entryData[ret.given[i]] = entryData[ret.given[j]]
            /\ ret.given[i] # ret.given[j]

(* C22 as stated: the appended suffix is every entry of other whose data
   equals the data of no entry the pool held before the call *)
C22_UnionPriorOnly ==
    IsOp(ret, "union") =>
        /\ Arr(ret.pool) = ret.before \o At(ret.given, NoEqualIn(ret.given, ret.before))
        /\ Arr(ret.other) = ret.given

----------------------------------------------------------------------------
(* intersect and difference of the caller's first pool, with the default
   comparison of data; the pool also takes entries of the other pools by
   merge *)

NextDiff ==
    \/ \E p \in Callers, d \in HeapData : Add(p, d, EmptyBag)
    \/ \E other \in Callers \ {Owner} : Merge(Owner, <<other>>)
    \/ \E other \in Callers : Intersect(Owner, other)
    \/ \E other \in Callers : Difference(Owner, other)

SpecDiff == InitPools /\ [][NextDiff]_vars

(* What intersect and difference keep of the sequence before the call: the
   entries with an equal in other, and the others *)
KeptBy(op, before, given) ==
    IF op = "intersect"
    THEN At(before, (1..Len(before)) \ NoEqualIn(before, given))
    ELSE At(before, NoEqualIn(before, given))

(* C23: intersect keeps, in order, the pool's entries whose data has an
   equal in other, and difference keeps the entries it has none for, so that
   the two results of one sequence share no position and miss none; another
   pool passed as other is as it was *)
C23_IntersectDifference ==
    (IsOp(ret, "intersect") \/ IsOp(ret, "difference")) =>
        /\ Arr(ret.pool) = KeptBy(ret.op, ret.before, ret.given)
        /\ ret.other # ret.pool => Arr(ret.other) = ret.given

(* A call on two distinct pools that kept one entry and dropped another *)
C23_Witness ==
    /\ (IsOp(ret, "intersect") \/ IsOp(ret, "difference"))
    /\ ret.other # ret.pool
    /\ Arr(ret.pool) # <<>>
    /\ Arr(ret.pool) # ret.before

(* C23 as stated: other is as it was after either call, whatever pool it is *)
C23_OtherUnchanged ==
    (IsOp(ret, "intersect") \/ IsOp(ret, "difference")) =>
        /\ Arr(ret.pool) = KeptBy(ret.op, ret.before, ret.given)
        /\ Arr(ret.other) = ret.given

----------------------------------------------------------------------------
(* groupBy('k') and partition(e => e.data.k === 1) of the caller's pools;
   the returned pools go to the caller's other variables *)

NextSplit ==
    \/ \E p \in Callers, d \in HeapData : Add(p, d, EmptyBag)
    \/ \E ts \in [1..MaxKey -> Pools] : GroupBy(Owner, ts)
    \/ \E p \in Callers, t1, t2 \in Pools : Partition(p, t1, t2)

SpecSplit == InitPools /\ [][NextSplit]_vars

(* The positions of seq whose entry has the key *)
WithKey(seq, key) == {j \in 1..Len(seq) : KeyAt(seq[j]) = key}

(* C24: groupBy returns one pool for each key value of the pool, each key
   once; the pool of a key holds, in the pool's order, the entries of that
   key, so that every position of the pool is in exactly one group and the
   group sizes add up to the pool's size; the pool is as it was *)
C24_GroupByPartitions ==
    IsOp(ret, "groupBy") =>
        /\ {ret.keys[i] : i \in 1..Len(ret.keys)} = {KeyAt(e) : e \in Range(ret.before)}
        /\ \A i, j \in 1..Len(ret.keys) : ret.keys[i] = ret.keys[j] => i = j
        /\ \A i \in 1..Len(ret.keys) :
                Arr(ret.into[i]) = At(ret.before, WithKey(ret.before, ret.keys[i]))
        /\ SeqSum([i \in 1..Len(ret.keys) |-> Len(Arr(ret.into[i]))]) = Len(ret.before)
        /\ Arr(ret.pool) = ret.before

(* A groupBy over entries of two keys *)
C24_Witness ==
    /\ IsOp(ret, "groupBy")
    /\ Len(ret.keys) >= 2

(* C25: partition returns a pool of the entries that satisfy the predicate
   and a pool of the others, each in the pool's order: every position of
   the pool is in exactly one of them, the sizes add up to the pool's size,
   and the pool is as it was *)
C25_PartitionComplete ==
    IsOp(ret, "partition") =>
        /\ Arr(ret.into[1]) = At(ret.before, WithKey(ret.before, 1))
        /\ Arr(ret.into[2]) = At(ret.before, (1..Len(ret.before)) \ WithKey(ret.before, 1))
        /\ Len(Arr(ret.into[1])) + Len(Arr(ret.into[2])) = Len(ret.before)
        /\ Range(Arr(ret.into[1])) \cap Range(Arr(ret.into[2])) = {}
        /\ Range(Arr(ret.into[1])) \cup Range(Arr(ret.into[2])) = Range(ret.before)
        /\ Arr(ret.pool) = ret.before

(* A partition with an entry on each side *)
C25_Witness ==
    /\ IsOp(ret, "partition")
    /\ Arr(ret.into[1]) # <<>>
    /\ Arr(ret.into[2]) # <<>>

----------------------------------------------------------------------------
(* The static combinators over the caller's pools *)

NextStatic ==
    \/ \E p \in Callers, d \in HeapData : Add(p, d, Unused)
    \/ \E t \in Pools \ Callers, other \in Callers : StaticMerge(t, <<Owner, other>>)
    \/ \E t \in Pools \ Callers, other \in Callers : StaticMergeUnique(t, <<Owner, other>>)
    \/ \E t \in Pools \ Callers, other \in Callers, resolver \in Resolvers :
            StaticMergeUniqueWith(t, <<Owner, other>>, resolver)
    \/ \E t \in Pools \ Callers, pool2 \in Callers : StaticIntersect(t, Owner, pool2)
    \/ \E n \in {1, 2} :
            StaticGroupBy([i \in 1..n |-> Owner], [i \in 1..MaxKey |-> Owner + i])

SpecStatic == InitPools /\ [][NextStatic]_vars

(* C26: a static merge, mergeUnique, mergeUniqueWith, intersect or groupBy
   hands its result to variables that hold none of its inputs, and every
   input pool holds the entries it held, in their order; every entry that
   existed has the data and the metadata it had *)
C26_StaticsLeaveInputs ==
    [][IsOp(ret', "static") =>
        /\ \A i \in 1..Len(ret'.inputs) :
                /\ arrays'[poolArr'[ret'.inputs[i]]] = arrays[poolArr[ret'.inputs[i]]]
                /\ \A j \in 1..Len(ret'.into) : ret'.into[j] # ret'.inputs[i]
        /\ SubSeq(entryData', 1, Len(entryData)) = entryData
        /\ SubSeq(entryMeta', 1, Len(entryMeta)) = entryMeta
        /\ SubSeq(metas', 1, Len(metas)) = metas]_vars

(* A static intersect of two different non-empty pools that returned a pool
   holding an entry of its own *)
C26_Witness ==
    /\ IsOp(ret, "static")
    /\ ret.fn = "intersect"
    /\ ret.inputs[1] # ret.inputs[2]
    /\ Arr(ret.inputs[2]) # <<>>
    /\ Arr(ret.into[1]) # <<>>
    /\ Arr(ret.into[1]) # Arr(ret.inputs[1])

----------------------------------------------------------------------------
(* A query of the pool, built and materialized with no handler registered *)

NextQuery ==
    \/ \E d \in HeapData, bag \in MetaBags : Len(Arr(Owner)) <= 1 /\ Add(Owner, d, bag)
    \/ QueryNew(Owner)
    \/ q # NoQuery /\ q.filters = <<>> /\ Where("k1")
    \/ q # NoQuery /\ Len(q.filters) <= 1 /\ WhereOr({"k1", "p1"})
    \/ q # NoQuery /\ q.sorters = <<>> /\ OrderBy("k", "desc")
    \/ q # NoQuery /\ q.sorters = <<>> /\ OrderByMeta("p", "asc")
    \/ Offset(1)
    \/ Limit(1)
    \/ ToArray
    \/ Count
    \/ \E t \in Pools \ Callers : ToPool(t)
    \/ \E sel \in {"first", "last"} : Select(sel, 0)

SpecQuery == InitPools /\ [][NextQuery]_vars

(* How many of the filter loops of the last call called filter f on entry e *)
EvalsOf(f, e) ==
    Cardinality({i \in 1..Len(ret.evals) :
                    f <= Len(ret.evals[i]) /\ e \in Range(ret.evals[i][f])})

(* C27: a select, toArray, toPool or count of the pool's query that has
   returned has called each registered filter at most once on each entry *)
C27_PipelineOnce ==
    Has(ret, "evals") =>
        \A f \in 1..Len(q.filters), e \in 1..Len(entryData) : EvalsOf(f, e) <= 1

(* C28: with no handler registered, where, whereOr, orderBy, orderByMeta,
   offset and limit, and toArray, count, toPool and select after them,
   leave the pool of the query with the entries it held, in their order *)
C28_QueryLeavesPool ==
    [][(/\ q # NoQuery
        /\ \A ev \in Events : handlers[q.pool][ev] = <<>>
        /\ IF ret' = This THEN q' # q ELSE Has(ret', "evals"))
       => arrays'[poolArr'[q.pool]] = Arr(q.pool)]_vars

(* A select over the whole pool whose sorters put the entries in another
   order than the pool holds them in *)
C28_Witness ==
    /\ IsOp(ret, "select")
    /\ q.filters = <<>>
    /\ q.sorters # <<>>
    /\ Len(ret.over) = Len(Arr(q.pool))
    /\ ret.over # Arr(q.pool)

----------------------------------------------------------------------------
(* select() of a query of the pool while entries are added and removed,
   with handlers that observe get and afterSelect *)

NextSelectGet ==
    \/ \E d \in HeapData : Add(Owner, d, Unused)
    \/ \E v \in 1..MaxKey : Remove(Owner, v)
    \/ QueryNew(Owner)
    \/ \E sel \in {"first", "last"} : Select(sel, 0)
    \/ \E ev \in {"afterSelect", "get"} : On(Owner, ev, "note")

SpecSelectGet == InitPools /\ [][NextSelectGet]_vars

(* C29: a select() of the pool's query that returned data has emitted get
   once, after afterSelect, with the entry the selector chose *)
C29_SelectEmitsGet ==
    (/\ IsOp(ret, "select")
     /\ ret.val # Null
     /\ handlers[Owner]["get"] # <<>>)
    => /\ Len(EmissionsOf("get")) = 1
       /\ EmissionsOf("get")[1].arg = EntryArg(ret.ids[1])
       /\ \A i, j \in 1..Len(calls) :
                (calls[i].ev = "afterSelect" /\ calls[j].ev = "get") => i < j

----------------------------------------------------------------------------
(* Handlers of remove and batchRemove that add to the pool they are
   registered on *)

NextReentrant ==
    \/ \E d \in HeapData : Add(Owner, d, EmptyBag)
    \/ \E v \in 1..MaxKey : Remove(Owner, v)
    \/ \E v \in 1..MaxKey : RemoveBatch(Owner, {v})
    \/ \E ev \in {"remove", "batchRemove"}, hd \in {"note", "adder"} : On(Owner, ev, hd)
    \/ \E ev \in {"remove", "batchRemove"}, hd \in {"note", "adder"} : Off(Owner, ev, hd)

SpecReentrant == InitPools /\ [][NextReentrant]_vars

(* C30: when remove() or removeBatch() has returned, every entry that an
   add() called by a handler during the call created is in the pool *)
C30_NoAddLost ==
    (IsOp(ret, "remove") \/ IsOp(ret, "removeBatch")) =>
        \A e \in 1..Len(entryData) :
            e > Len(entryData) - ret.made => e \in Range(Arr(Owner))

====
